---- MODULE Spec2Model ----
(***************************************************************************)
(* seccam-web: the event ingestion pipeline of src/main.go (POST           *)
(* /event/new, GET /) over the SQLite events table and the data directory. *)
(*                                                                         *)
(* One action models one whole HTTP handler call.  A panic inside a        *)
(* handler is what net/http makes of it: the deferred calls run, the       *)
(* connection is dropped and no status line is written.                    *)
(*                                                                         *)
(* Spec       the handlers of main.go, one request after the other         *)
(* SpecEnv    the same, with a failing notifier and a client that goes     *)
(*            away during its upload                                       *)
(* SpecConc   NewEventHandler statement by statement, several requests     *)
(*            served side by side                                          *)
(* SpecStore  App.CreateEvent and App.GetEvent called directly             *)
(* SpecFfmpeg the handlers of the re-encoding variant (README.md:253-586)  *)
(***************************************************************************)
EXTENDS Integers, Sequences, FiniteSets, TLC

VARIABLES
    events,    \* the rows of table events (main.go:79-85)
    seq,       \* sqlite_sequence of table events: the largest id ever assigned
    fs,        \* the data directory: path -> size of the file, or NoFile
    handler,   \* the handler that served the last request
    req,       \* the request the last handler call served
    fault,     \* the failure the environment injected into that call
    status,    \* the status that call wrote with w.WriteHeader (0: none written)
    panicked,  \* whether that call ended in a panic
    rowId,     \* NewEventHandler's local rowId (0: CreateEvent did not return)
    event,     \* NewEventHandler's local event after line 225, handed to SendSMS
    converted, \* whether that call's ffmpeg run ended without error (README.md:486)
    sms,       \* that call's call of SendSMS: whether made, with which event, whether delivered
    inflight,  \* the handler goroutines started so far, each with its position and locals
    body       \* the events IndexHandler handed to the template

vars == <<events, seq, fs, handler, req, fault, status, panicked, rowId, event,
          converted, sms, inflight, body>>

----------------------------------------------------------------------------
(* Bounds and input sets *)

\* at most this many rows are inserted (one more than the listing's LIMIT)
MaxEvents == 6

\* r.ParseMultipartForm(104857600): the maxMemory argument
maxMemory == 104857600

\* LIMIT of the index query
IndexLimit == 5

StatusAccepted == 202
StatusNotAcceptable == 406
StatusOK == 200

\* config.dirs.data, cleaned by filepath.Join
DataDir == "data"

\* file names are kept as base and extension, so that filepath.Ext and
\* strings.TrimSuffix are computed and not looked up
VideoNames == {[base |-> "a", ext |-> ".avi"], [base |-> "b", ext |-> ".avi"]}
ImageNames == {[base |-> "a", ext |-> ".jpg"]}

\* upload sizes in bytes: with the one-byte image, the two files of a request
\* add up to exactly maxMemory, or to one byte more
VideoSizes == {maxMemory - 1, maxMemory}
ImageSizes == {1}

Names == {"", "motion-1"}

\* a multipart part that is not in the request
NoPart == [missing |-> TRUE]

VideoParts == [filename : VideoNames, size : VideoSizes]
ImageParts == [filename : ImageNames, size : ImageSizes]

\* what can fail in the environment during one call (at most one per call)
Faults == {"none", "openVideo", "openImage", "copyVideo", "copyImage", "exec"}

NoRequest == [name |-> "", video |-> NoPart, image |-> NoPart]

Requests == [name : Names, video : VideoParts \cup {NoPart}, image : ImageParts \cup {NoPart}]

\* a fault is injected only into a call that reaches the place where it strikes
Applicable(r, f) ==
    \/ f = "none"
    \/ /\ f \in {"openVideo", "openImage", "copyVideo", "copyImage"}
       /\ r.video # NoPart
       /\ r.image # NoPart
    \/ /\ f = "exec"
       /\ r.video # NoPart
       /\ r.image # NoPart
       /\ r.name # ""

----------------------------------------------------------------------------
(* Values *)

NoFile == -1

EmptyPath == [dir |-> "", base |-> "", ext |-> ""]

NullTime == "NULL"
ZeroTime == "0001-01-01 00:00:00"
CurrentTimestamp == "CURRENT_TIMESTAMP"

\* Event{}: Go's zero value of the struct
ZeroEvent == [id |-> 0, name |-> "", time |-> ZeroTime, video |-> EmptyPath, image |-> EmptyPath]

Max(a, b) == IF a >= b THEN a ELSE b
Min(a, b) == IF a <= b THEN a ELSE b

\* filepath.Join(app.Config.dirs.data, handler.Filename)
Join(dir, filename) == [dir |-> dir, base |-> filename.base, ext |-> filename.ext]

\* every path a handler can touch
Paths == [dir : {DataDir}, base : {"a", "b"}, ext : {".avi", ".mp4", ".jpg"}]

----------------------------------------------------------------------------
(* The request: r.ParseMultipartForm, r.FormValue, r.FormFile *)

\* r.ParseMultipartForm(maxMemory): the file parts are kept in memory up to
\* maxMemory bytes in total, and a part that no longer fits is spooled to a
\* temporary file; no size makes the parse fail
ParseMultipartForm(r, maxMem) ==
    LET vMem == r.video # NoPart /\ r.video.size <= maxMem
        left == IF vMem THEN maxMem - r.video.size ELSE maxMem
        iMem == r.image # NoPart /\ r.image.size <= left
    IN  [ value |-> [name |-> r.name],
          file  |-> [ video |-> IF r.video = NoPart THEN NoPart
                                ELSE [filename |-> r.video.filename,
                                      size     |-> r.video.size,
                                      tmpfile  |-> ~vMem],
                      image |-> IF r.image = NoPart THEN NoPart
                                ELSE [filename |-> r.image.filename,
                                      size     |-> r.image.size,
                                      tmpfile  |-> ~iMem] ] ]

\* the parse that hands out the whole form although the body ended early
ParseFormWhole(r, f) == ParseMultipartForm(r, maxMemory)

\* line 184, whose error is dropped.  When the client goes away before the
\* body is complete, the multipart reader fails with an unexpected EOF, no
\* form is kept (ReadForm returns nil and removes its temporary files), and
\* the FormValue and FormFile calls that follow find nothing
ParseForm(r, f) ==
    IF f = "disconnect"
    THEN [value |-> [name |-> ""], file |-> [video |-> NoPart, image |-> NoPart]]
    ELSE ParseMultipartForm(r, maxMemory)

\* r.FormValue(key)
FormValue(form, key) == form.value[key]

\* r.FormFile(key): the part and its header, or http.ErrMissingFile
FormFile(form, key) ==
    IF form.file[key] = NoPart
    THEN [header |-> NoPart, err |-> TRUE]
    ELSE [header |-> form.file[key], err |-> FALSE]

----------------------------------------------------------------------------
(* The data directory: os.OpenFile and io.Copy *)

\* a nil *os.File
NilFile == [nil |-> TRUE]

\* os.OpenFile(path, os.O_WRONLY|os.O_CREATE, 0775): creates the file when it
\* is absent, leaves an existing file's bytes alone (no O_TRUNC)
OpenFile(fsys, path, ok) ==
    IF ok
    THEN [ file |-> path, err |-> FALSE,
           fs   |-> IF fsys[path] = NoFile THEN [fsys EXCEPT ![path] = 0] ELSE fsys ]
    ELSE [ file |-> NilFile, err |-> TRUE, fs |-> fsys ]

\* io.Copy(dst, src) with its results dropped: writes src's bytes from offset
\* 0 of dst; a nil dst answers os.ErrInvalid to the first Write, and a failed
\* copy writes nothing
Copy(fsys, dst, size, ok) ==
    IF dst = NilFile \/ ~ok
    THEN fsys
    ELSE [fsys EXCEPT ![dst] = Max(@, size)]

----------------------------------------------------------------------------
(* The events table: CreateEvent, GetEvent, the index query *)

\* the largest id of the table, 0 when it is empty
MaxId(tbl) == IF tbl = {} THEN 0 ELSE CHOOSE m \in {e.id : e \in tbl} : \A e \in tbl : e.id <= m

\* CreateEvent with an id that is not advanced past the ids assigned so far
CreateEventSameId(tbl, sq, ev, ok) ==
    IF ~ok
    THEN [panic |-> TRUE, events |-> tbl, seq |-> sq, rowId |-> 0]
    ELSE LET id  == Max(sq, MaxId(tbl))
             row == [id |-> id, name |-> ev.name, time |-> CurrentTimestamp,
                     video |-> ev.video, image |-> ev.image]
         IN  [panic |-> FALSE, events |-> tbl \cup {row}, seq |-> id, rowId |-> id]

\* App.CreateEvent: INSERT INTO events(name, video, image), id by AUTOINCREMENT
\* (one more than the largest id ever assigned), time by DEFAULT
\* CURRENT_TIMESTAMP; a failing Exec panics
CreateEvent(tbl, sq, ev, ok) ==
    IF ~ok
    THEN [panic |-> TRUE, events |-> tbl, seq |-> sq, rowId |-> 0]
    ELSE LET id  == Max(sq, MaxId(tbl)) + 1
             row == [id |-> id, name |-> ev.name, time |-> CurrentTimestamp,
                     video |-> ev.video, image |-> ev.image]
         IN  [panic |-> FALSE, events |-> tbl \cup {row}, seq |-> id, rowId |-> id]

\* App.GetEvent: SELECT * FROM events WHERE id = ? is run with the literal
\* argument 1, not with id; Scan on no row panics
GetEvent(tbl, id) ==
    LET rows == {e \in tbl : e.id = 1}
    IN  IF rows = {}
        THEN [panic |-> TRUE, event |-> ZeroEvent]
        ELSE [panic |-> FALSE, event |-> CHOOSE e \in rows : TRUE]

\* ORDER BY id ASC
RECURSIVE OrderByIdAsc(_)
OrderByIdAsc(rows) ==
    IF rows = {}
    THEN <<>>
    ELSE LET low == CHOOSE e \in rows : \A o \in rows : e.id <= o.id
         IN  <<low>> \o OrderByIdAsc(rows \ {low})

\* ORDER BY id DESC
RECURSIVE OrderByIdDesc(_)
OrderByIdDesc(rows) ==
    IF rows = {}
    THEN <<>>
    ELSE LET top == CHOOSE e \in rows : \A o \in rows : o.id <= e.id
         IN  <<top>> \o OrderByIdDesc(rows \ {top})

\* LIMIT n
Limit(rows, n) == SubSeq(rows, 1, Min(n, Len(rows)))

\* SELECT * FROM events ORDER BY id DESC LIMIT 5
IndexQuery(tbl) == Limit(OrderByIdDesc(tbl), IndexLimit)

----------------------------------------------------------------------------
(* POST /event/new *)

\* SendSMS was not called
NoSms == [called |-> FALSE, event |-> ZeroEvent, delivered |-> FALSE]

\* SendSMS that passes a failure of the Twilio call on as a panic
SendSMSPanics(ev, ok) ==
    [panic |-> ~ok, sms |-> [called |-> TRUE, event |-> ev, delivered |-> ok]]

\* App.SendSMS: the message is built from the event and handed to
\* twilio.SendSMS, whose three results (response, exception, error) are dropped
SendSMS(ev, ok) ==
    [panic |-> FALSE, sms |-> [called |-> TRUE, event |-> ev, delivered |-> ok]]

\* what a call of NewEventHandler leaves behind
Outcome(tbl, sq, fsys, st, pan, id, ev) ==
    [events |-> tbl, seq |-> sq, fs |-> fsys, status |-> st, panicked |-> pan,
     rowId |-> id, event |-> ev, converted |-> FALSE, sms |-> NoSms]

\* a panic: nothing is written to w, what was done before it stays done
Panic(tbl, sq, fsys, id) == Outcome(tbl, sq, fsys, 0, TRUE, id, ZeroEvent)

\* the completeness check without its test of the name
CompletePathsOnly(ev) == ev.image # EmptyPath /\ ev.video # EmptyPath

\* the completeness check of line 223
Complete(ev) == ev.name # "" /\ ev.image # EmptyPath /\ ev.video # EmptyPath

\* lines 222-232 without the completeness check: every event is inserted
CommitAlways(tbl, sq, fsys, ev, f) ==
    LET created == CreateEvent(tbl, sq, ev, f # "exec")
        got     == GetEvent(created.events, created.rowId)
    IN  IF created.panic
        THEN Panic(tbl, sq, fsys, 0)
        ELSE IF got.panic
        THEN Panic(created.events, created.seq, fsys, created.rowId)
        ELSE LET sent == SendSMS(got.event, f # "sms")
             IN  IF sent.panic
                 THEN [Panic(created.events, created.seq, fsys, created.rowId)
                          EXCEPT !.sms = sent.sms]
                 ELSE [Outcome(created.events, created.seq, fsys, StatusAccepted,
                               FALSE, created.rowId, got.event)
                          EXCEPT !.sms = sent.sms]

\* lines 222-232: insert, read back, notify and answer 202, or answer 406
Commit(tbl, sq, fsys, ev, f) ==
    IF Complete(ev)
    THEN LET created == CreateEvent(tbl, sq, ev, f # "exec")
             got     == GetEvent(created.events, created.rowId)
         IN  IF created.panic
             THEN Panic(tbl, sq, fsys, 0)
             ELSE IF got.panic
             THEN Panic(created.events, created.seq, fsys, created.rowId)
             ELSE LET sent == SendSMS(got.event, f # "sms")
                  IN  IF sent.panic
                      THEN [Panic(created.events, created.seq, fsys, created.rowId)
                               EXCEPT !.sms = sent.sms]
                      ELSE [Outcome(created.events, created.seq, fsys, StatusAccepted,
                                    FALSE, created.rowId, got.event)
                               EXCEPT !.sms = sent.sms]
    ELSE Outcome(tbl, sq, fsys, StatusNotAcceptable, FALSE, 0, ZeroEvent)

\* lines 194-213: both destinations are opened, only the second open's error
\* is looked at, then both streams are copied
Persist(fsys, video, image, f) ==
    LET vPath == Join(DataDir, video.filename)
        iPath == Join(DataDir, image.filename)
        vDest == OpenFile(fsys, vPath, f # "openVideo")
        iDest == OpenFile(vDest.fs, iPath, f # "openImage")
        fs1   == Copy(iDest.fs, vDest.file, video.size, f # "copyVideo")
        fs2   == Copy(fs1, iDest.file, image.size, f # "copyImage")
    IN  [ err |-> iDest.err, vPath |-> vPath, iPath |-> iPath,
          fs  |-> IF iDest.err THEN iDest.fs ELSE fs2 ]

\* App.NewEventHandler as a function of the store, the data directory, the
\* request r and the injected fault f
HandleNewEvent(tbl, sq, fsys, r, f) ==
    LET form  == ParseForm(r, f)
        name  == FormValue(form, "name")
        video == FormFile(form, "video")
        image == FormFile(form, "image")
    IN  IF image.err
        THEN Panic(tbl, sq, fsys, 0)          \* line 191: panic(err)
        ELSE IF video.header = NoPart
        THEN Panic(tbl, sq, fsys, 0)          \* line 195: vHandler is nil
        ELSE LET saved == Persist(fsys, video.header, image.header, f)
                 ev    == [name |-> name, image |-> saved.iPath, video |-> saved.vPath]
             IN  IF saved.err
                 THEN Panic(tbl, sq, saved.fs, 0)   \* line 202: panic(err)
                 ELSE Commit(tbl, sq, saved.fs, ev, f)

NewEventHandler(r, f) ==
    /\ seq < MaxEvents
    /\ Applicable(r, f)
    /\ \E out \in {HandleNewEvent(events, seq, fs, r, f)} :
           /\ events' = out.events
           /\ seq' = out.seq
           /\ fs' = out.fs
           /\ status' = out.status
           /\ panicked' = out.panicked
           /\ rowId' = out.rowId
           /\ event' = out.event
           /\ converted' = out.converted
           /\ sms' = out.sms
    /\ handler' = "NewEventHandler"
    /\ req' = r
    /\ fault' = f
    /\ body' = <<>>
    /\ UNCHANGED inflight

\* at most this many rows are inserted when the notifier and the client's
\* connection can fail as well
MaxEventsEnv == 2

\* "sms": the Twilio call fails; "disconnect": the client goes away before
\* its upload is fully received
EnvFaults == Faults \cup {"sms", "disconnect"}

EnvApplicable(r, f) ==
    \/ Applicable(r, f)
    \/ /\ f = "sms"
       /\ r.video # NoPart
       /\ r.image # NoPart
       /\ r.name # ""
    \/ /\ f = "disconnect"
       /\ (r.video # NoPart \/ r.image # NoPart)

\* App.NewEventHandler, served while the notifier or the connection may fail
NewEventHandlerEnv(r, f) ==
    /\ seq < MaxEventsEnv
    /\ EnvApplicable(r, f)
    /\ \E out \in {HandleNewEvent(events, seq, fs, r, f)} :
           /\ events' = out.events
           /\ seq' = out.seq
           /\ fs' = out.fs
           /\ status' = out.status
           /\ panicked' = out.panicked
           /\ rowId' = out.rowId
           /\ event' = out.event
           /\ converted' = out.converted
           /\ sms' = out.sms
    /\ handler' = "NewEventHandler"
    /\ req' = r
    /\ fault' = f
    /\ body' = <<>>
    /\ UNCHANGED inflight

----------------------------------------------------------------------------
(* GET / *)

\* App.IndexHandler: the rows of the index query, in order, go to the template
IndexHandler ==
    /\ body' = IndexQuery(events)
    /\ handler' = "IndexHandler"
    /\ status' = StatusOK
    /\ panicked' = FALSE
    /\ req' = NoRequest
    /\ fault' = "none"
    /\ rowId' = 0
    /\ event' = ZeroEvent
    /\ converted' = FALSE
    /\ sms' = NoSms
    /\ UNCHANGED <<events, seq, fs, inflight>>

----------------------------------------------------------------------------
(* POST /event/new of the variant that re-encodes the video (README.md:443-512) *)

\* at most this many rows are inserted by the re-encoding variant
MaxEventsFfmpeg == 2

\* uploads of the re-encoding variant: a video that is already .mp4 (the
\* derived target is the source), and an image named like the video
FfmpegVideoNames == {[base |-> "a", ext |-> ".avi"], [base |-> "a", ext |-> ".mp4"]}
FfmpegImageNames == {[base |-> "a", ext |-> ".jpg"], [base |-> "a", ext |-> ".avi"]}

FfmpegRequests ==
    [ name  : Names,
      video : [filename : FfmpegVideoNames, size : {maxMemory - 1}] \cup {NoPart},
      image : [filename : FfmpegImageNames, size : ImageSizes] \cup {NoPart} ]

\* "ffmpeg": the encoder is not installed or exits non-zero
FfmpegFaults == Faults \cup {"ffmpeg"}

FfmpegApplicable(r, f) ==
    \/ Applicable(r, f)
    \/ /\ f = "ffmpeg"
       /\ r.video # NoPart
       /\ r.image # NoPart

\* filepath.Ext(path)
Ext(path) == path.ext

\* strings.TrimSuffix(path, suffix), for a suffix that is empty or path's extension
TrimSuffix(path, suffix) == IF path.ext = suffix THEN [path EXCEPT !.ext = ""] ELSE path

\* strings.TrimSuffix(vPath, filepath.Ext(vPath)) + ".mp4"
NewVideoPath(path) ==
    LET trimmed == TrimSuffix(path, Ext(path))
    IN  [trimmed EXCEPT !.ext = trimmed.ext \o ".mp4"]

\* the size of the re-encoded video (scaled down to 320x240)
Transcoded(size) == size \div 2

\* cmd.Run() of ffmpeg -i src ... -y dst: ffmpeg needs a non-empty input and
\* refuses an output that is its input; on success dst holds the new video
RunFfmpeg(fsys, src, dst, ok) ==
    IF ok /\ fsys[src] # NoFile /\ fsys[src] > 0 /\ src # dst
    THEN [err |-> FALSE, fs |-> [fsys EXCEPT ![dst] = Transcoded(fsys[src])]]
    ELSE [err |-> TRUE, fs |-> fsys]

\* os.Remove(path)
Remove(fsys, path) == [fsys EXCEPT ![path] = NoFile]

\* the re-encoding step that swaps the path and removes the upload whatever
\* ffmpeg answered
ReencodeSwapsAlways(fsys, vPath, f) ==
    LET newVideoPath == NewVideoPath(vPath)
        cmd          == RunFfmpeg(fsys, vPath, newVideoPath, f # "ffmpeg")
    IN  [converted |-> ~cmd.err, vPath |-> newVideoPath, fs |-> Remove(cmd.fs, vPath)]

\* README.md:481-492: on success the upload is removed and the new path kept
Reencode(fsys, vPath, f) ==
    LET newVideoPath == NewVideoPath(vPath)
        cmd          == RunFfmpeg(fsys, vPath, newVideoPath, f # "ffmpeg")
    IN  IF ~cmd.err
        THEN [converted |-> TRUE, vPath |-> newVideoPath, fs |-> Remove(cmd.fs, vPath)]
        ELSE [converted |-> FALSE, vPath |-> vPath, fs |-> fsys]

\* App.GetEvent of README.md:384-407: QueryRow with id; sql.ErrNoRows panics
GetEventQueryRow(tbl, id) ==
    LET rows == {e \in tbl : e.id = id}
    IN  IF rows = {}
        THEN [panic |-> TRUE, event |-> ZeroEvent]
        ELSE [panic |-> FALSE, event |-> CHOOSE e \in rows : TRUE]

\* README.md:501-511
CommitFfmpeg(tbl, sq, fsys, ev, f) ==
    IF Complete(ev)
    THEN LET created == CreateEvent(tbl, sq, ev, f # "exec")
             got     == GetEventQueryRow(created.events, created.rowId)
         IN  IF created.panic
             THEN Panic(tbl, sq, fsys, 0)
             ELSE IF got.panic
             THEN Panic(created.events, created.seq, fsys, created.rowId)
             ELSE LET sent == SendSMS(got.event, f # "sms")
                  IN  IF sent.panic
                      THEN [Panic(created.events, created.seq, fsys, created.rowId)
                               EXCEPT !.sms = sent.sms]
                      ELSE [Outcome(created.events, created.seq, fsys, StatusAccepted,
                                    FALSE, created.rowId, got.event)
                               EXCEPT !.sms = sent.sms]
    ELSE Outcome(tbl, sq, fsys, StatusNotAcceptable, FALSE, 0, ZeroEvent)

\* the handler of README.md:446-512 with an ffmpeg error treated like the
\* errors before it: panic(err)
HandleNewEventFfmpegAborts(tbl, sq, fsys, r, f) ==
    LET form  == ParseForm(r, f)
        name  == FormValue(form, "name")
        video == FormFile(form, "video")
        image == FormFile(form, "image")
    IN  IF image.err
        THEN Panic(tbl, sq, fsys, 0)
        ELSE IF video.header = NoPart
        THEN Panic(tbl, sq, fsys, 0)
        ELSE LET saved == Persist(fsys, video.header, image.header, f)
             IN  IF saved.err
                 THEN Panic(tbl, sq, saved.fs, 0)
                 ELSE LET enc == Reencode(saved.fs, saved.vPath, f)
                          ev  == [name |-> name, image |-> saved.iPath, video |-> enc.vPath]
                      IN  IF ~enc.converted
                          THEN Panic(tbl, sq, enc.fs, 0)
                          ELSE [CommitFfmpeg(tbl, sq, enc.fs, ev, f)
                                   EXCEPT !.converted = enc.converted]

\* App.NewEventHandler of README.md:446-512
HandleNewEventFfmpeg(tbl, sq, fsys, r, f) ==
    LET form  == ParseForm(r, f)
        name  == FormValue(form, "name")
        video == FormFile(form, "video")
        image == FormFile(form, "image")
    IN  IF image.err
        THEN Panic(tbl, sq, fsys, 0)
        ELSE IF video.header = NoPart
        THEN Panic(tbl, sq, fsys, 0)
        ELSE LET saved == Persist(fsys, video.header, image.header, f)
             IN  IF saved.err
                 THEN Panic(tbl, sq, saved.fs, 0)
                 ELSE LET enc == Reencode(saved.fs, saved.vPath, f)
                          ev  == [name |-> name, image |-> saved.iPath, video |-> enc.vPath]
                      IN  [CommitFfmpeg(tbl, sq, enc.fs, ev, f)
                              EXCEPT !.converted = enc.converted]

NewEventHandlerFfmpeg(r, f) ==
    /\ seq < MaxEventsFfmpeg
    /\ FfmpegApplicable(r, f)
    /\ \E out \in {HandleNewEventFfmpeg(events, seq, fs, r, f)} :
           /\ events' = out.events
           /\ seq' = out.seq
           /\ fs' = out.fs
           /\ status' = out.status
           /\ panicked' = out.panicked
           /\ rowId' = out.rowId
           /\ event' = out.event
           /\ converted' = out.converted
           /\ sms' = out.sms
    /\ handler' = "NewEventHandler"
    /\ req' = r
    /\ fault' = f
    /\ body' = <<>>
    /\ UNCHANGED inflight

----------------------------------------------------------------------------
(* POST /event/new, statement by statement: net/http serves every request  *)
(* on a goroutine of its own, and the goroutines share the table and the   *)
(* data directory                                                          *)

\* so many requests are served side by side
NumWorkers == 2

Workers == 1..NumWorkers

\* the uploads of the concurrent clients: two complete ones, told apart by
\* their names, and one without a name
ConcRequests ==
    { [ name  |-> "",
        video |-> [filename |-> [base |-> "a", ext |-> ".avi"], size |-> maxMemory - 1],
        image |-> [filename |-> [base |-> "a", ext |-> ".jpg"], size |-> 1] ],
      [ name  |-> "motion-1",
        video |-> [filename |-> [base |-> "a", ext |-> ".avi"], size |-> maxMemory - 1],
        image |-> [filename |-> [base |-> "a", ext |-> ".jpg"], size |-> 1] ],
      [ name  |-> "motion-2",
        video |-> [filename |-> [base |-> "b", ext |-> ".avi"], size |-> maxMemory - 1],
        image |-> [filename |-> [base |-> "a", ext |-> ".jpg"], size |-> 1] ] }

ConcFaults == {"none", "exec", "sms"}

\* a goroutine that enters NewEventHandler: its locals at their zero values
FreshWorker ==
    [ pc |-> "open", req |-> NoRequest, fault |-> "none", name |-> "",
      vPath |-> EmptyPath, iPath |-> EmptyPath, vDest |-> NilFile, iDest |-> NilFile,
      copied |-> {}, rowId |-> 0, event |-> ZeroEvent, status |-> 0,
      panicked |-> FALSE ]

\* panic: the goroutine's handler call ends, net/http recovers and closes the
\* connection
Crash(st) == [st EXCEPT !.pc = "done", !.panicked = TRUE]

\* lines 183-203: parse, look the parts up, open both destinations
StepOpen(st, fsys) ==
    LET form  == ParseForm(st.req, st.fault)
        video == FormFile(form, "video")
        image == FormFile(form, "image")
    IN  IF image.err \/ video.header = NoPart
        THEN [st |-> Crash(st), fs |-> fsys]
        ELSE LET vPath == Join(DataDir, video.header.filename)
                 iPath == Join(DataDir, image.header.filename)
                 vDest == OpenFile(fsys, vPath, st.fault # "openVideo")
                 iDest == OpenFile(vDest.fs, iPath, st.fault # "openImage")
             IN  IF iDest.err
                 THEN [st |-> Crash(st), fs |-> iDest.fs]
                 ELSE [ st |-> [st EXCEPT !.pc = "copyVideo",
                                          !.name = FormValue(form, "name"),
                                          !.vPath = vPath, !.iPath = iPath,
                                          !.vDest = vDest.file, !.iDest = iDest.file],
                        fs |-> iDest.fs ]

\* line 212: io.Copy(vDest, video)
StepCopyVideo(st, fsys) ==
    [ st |-> [st EXCEPT !.pc = "copyImage", !.copied = @ \cup {"video"}],
      fs |-> Copy(fsys, st.vDest, st.req.video.size, st.fault # "copyVideo") ]

\* line 213: io.Copy(iDest, image)
StepCopyImage(st, fsys) ==
    [ st |-> [st EXCEPT !.pc = "insert", !.copied = @ \cup {"image"}],
      fs |-> Copy(fsys, st.iDest, st.req.image.size, st.fault # "copyImage") ]

\* the order of the first version of the handler (README.md:185-191):
\* w.WriteHeader(http.StatusAccepted) comes before app.CreateEvent(event)
StepInsertAfterHeader(st, tbl, sq) ==
    LET ev == [name |-> st.name, image |-> st.iPath, video |-> st.vPath]
    IN  IF ~Complete(ev)
        THEN [ st |-> [st EXCEPT !.pc = "done", !.status = StatusNotAcceptable],
               events |-> tbl, seq |-> sq ]
        ELSE LET created  == CreateEvent(tbl, sq, ev, st.fault # "exec")
                 answered == [st EXCEPT !.status = StatusAccepted]
             IN  IF created.panic
                 THEN [st |-> Crash(answered), events |-> tbl, seq |-> sq]
                 ELSE [ st |-> [answered EXCEPT !.pc = "notify", !.rowId = created.rowId],
                        events |-> created.events, seq |-> created.seq ]

\* lines 215-224 and 230-232: build the event, check it, insert it
StepInsert(st, tbl, sq) ==
    LET ev == [name |-> st.name, image |-> st.iPath, video |-> st.vPath]
    IN  IF ~Complete(ev)
        THEN [ st |-> [st EXCEPT !.pc = "done", !.status = StatusNotAcceptable],
               events |-> tbl, seq |-> sq ]
        ELSE LET created == CreateEvent(tbl, sq, ev, st.fault # "exec")
             IN  IF created.panic
                 THEN [st |-> Crash(st), events |-> tbl, seq |-> sq]
                 ELSE [ st |-> [st EXCEPT !.pc = "notify", !.rowId = created.rowId],
                        events |-> created.events, seq |-> created.seq ]

\* lines 225-226: read the row back, notify
StepNotify(st, tbl) ==
    LET got == GetEvent(tbl, st.rowId)
    IN  IF got.panic
        THEN Crash(st)
        ELSE IF SendSMS(got.event, st.fault # "sms").panic
        THEN Crash([st EXCEPT !.event = got.event])
        ELSE [st EXCEPT !.pc = "respond", !.event = got.event]

\* line 227: w.WriteHeader(http.StatusAccepted)
StepRespond(st) == [st EXCEPT !.pc = "done", !.status = StatusAccepted]

\* what the statement-by-statement actions leave alone
LastCall == <<handler, req, fault, status, panicked, rowId, event, converted, sms, body>>

\* a request arrives and its goroutine starts
Accept(w, r, f) ==
    /\ w \notin DOMAIN inflight
    /\ (f = "none" \/ r.name # "")
    /\ inflight' = inflight @@ (w :> [FreshWorker EXCEPT !.req = r, !.fault = f])
    /\ UNCHANGED <<events, seq, fs>>
    /\ UNCHANGED LastCall

Open(w) ==
    /\ w \in DOMAIN inflight
    /\ inflight[w].pc = "open"
    /\ \E out \in {StepOpen(inflight[w], fs)} :
           /\ inflight' = [inflight EXCEPT ![w] = out.st]
           /\ fs' = out.fs
    /\ UNCHANGED <<events, seq>>
    /\ UNCHANGED LastCall

CopyVideo(w) ==
    /\ w \in DOMAIN inflight
    /\ inflight[w].pc = "copyVideo"
    /\ \E out \in {StepCopyVideo(inflight[w], fs)} :
           /\ inflight' = [inflight EXCEPT ![w] = out.st]
           /\ fs' = out.fs
    /\ UNCHANGED <<events, seq>>
    /\ UNCHANGED LastCall

CopyImage(w) ==
    /\ w \in DOMAIN inflight
    /\ inflight[w].pc = "copyImage"
    /\ \E out \in {StepCopyImage(inflight[w], fs)} :
           /\ inflight' = [inflight EXCEPT ![w] = out.st]
           /\ fs' = out.fs
    /\ UNCHANGED <<events, seq>>
    /\ UNCHANGED LastCall

Insert(w) ==
    /\ w \in DOMAIN inflight
    /\ inflight[w].pc = "insert"
    /\ \E out \in {StepInsert(inflight[w], events, seq)} :
           /\ inflight' = [inflight EXCEPT ![w] = out.st]
           /\ events' = out.events
           /\ seq' = out.seq
    /\ UNCHANGED fs
    /\ UNCHANGED LastCall

Notify(w) ==
    /\ w \in DOMAIN inflight
    /\ inflight[w].pc = "notify"
    /\ inflight' = [inflight EXCEPT ![w] = StepNotify(inflight[w], events)]
    /\ UNCHANGED <<events, seq, fs>>
    /\ UNCHANGED LastCall

Respond(w) ==
    /\ w \in DOMAIN inflight
    /\ inflight[w].pc = "respond"
    /\ inflight' = [inflight EXCEPT ![w] = StepRespond(inflight[w])]
    /\ UNCHANGED <<events, seq, fs>>
    /\ UNCHANGED LastCall

----------------------------------------------------------------------------
(* The store on its own: App.CreateEvent and App.GetEvent called with any  *)
(* event and any id                                                        *)

\* at most this many rows are inserted when the store is exercised on its own
MaxEventsStore == 3

\* the events handed to CreateEvent
StoreEvents == [name : Names, video : {Join(DataDir, n) : n \in VideoNames},
                image : {Join(DataDir, n) : n \in ImageNames}]

\* the ids handed to GetEvent: the ones in use and one that never is
StoreIds == 1..(MaxEventsStore + 1)

\* what the direct calls leave alone
Served == <<fs, req, fault, status, converted, sms, inflight, body>>

\* app.CreateEvent(ev)
CreateEventCall(ev, ok) ==
    /\ seq < MaxEventsStore
    /\ \E out \in {CreateEvent(events, seq, ev, ok)} :
           /\ events' = out.events
           /\ seq' = out.seq
           /\ rowId' = out.rowId
           /\ panicked' = out.panic
    /\ event' = ZeroEvent
    /\ handler' = "CreateEvent"
    /\ UNCHANGED Served

\* app.GetEvent(id): rowId keeps the id that was asked for
GetEventCall(id) ==
    /\ \E out \in {GetEvent(events, id)} :
           /\ event' = out.event
           /\ panicked' = out.panic
    /\ rowId' = id
    /\ handler' = "GetEvent"
    /\ UNCHANGED <<events, seq>>
    /\ UNCHANGED Served

----------------------------------------------------------------------------
(* The program *)

\* a row of table events, as scanned into an Event
Rows ==
    [ id    : 1..(MaxEvents + MaxEventsFfmpeg + MaxEventsStore),
      name  : Names \cup {r.name : r \in ConcRequests},
      time  : {CurrentTimestamp},
      video : Paths,
      image : Paths ]

\* the state: the table and its id counter, the data directory, and what the
\* last handler call was given and left behind
TypeOK ==
    /\ events \subseteq Rows
    /\ seq \in Nat
    /\ fs \in [Paths -> {NoFile} \cup Nat]
    /\ handler \in {"none", "NewEventHandler", "IndexHandler", "CreateEvent", "GetEvent"}
    /\ req \in Requests \cup FfmpegRequests
    /\ fault \in FfmpegFaults \cup EnvFaults
    /\ status \in {0, StatusOK, StatusAccepted, StatusNotAcceptable}
    /\ panicked \in BOOLEAN
    /\ rowId \in Nat
    /\ event \in Rows \cup {ZeroEvent}
    /\ converted \in BOOLEAN
    /\ sms \in [called : BOOLEAN, event : Rows \cup {ZeroEvent}, delivered : BOOLEAN]
    /\ DOMAIN inflight \subseteq Workers
    /\ inflight \in [DOMAIN inflight ->
           [ pc : {"open", "copyVideo", "copyImage", "insert", "notify",
                   "respond", "done"},
             req : ConcRequests \cup {NoRequest}, fault : ConcFaults,
             name : {r.name : r \in ConcRequests} \cup {""},
             vPath : Paths \cup {EmptyPath}, iPath : Paths \cup {EmptyPath},
             vDest : Paths \cup {NilFile}, iDest : Paths \cup {NilFile},
             copied : SUBSET {"video", "image"}, rowId : Nat,
             event : Rows \cup {ZeroEvent},
             status : {0, StatusAccepted, StatusNotAcceptable},
             panicked : BOOLEAN ]]
    /\ body \in Seq(Rows)

\* New: the table is created empty, the data directory holds no upload
Init ==
    /\ events = {}
    /\ seq = 0
    /\ fs = [p \in Paths |-> NoFile]
    /\ handler = "none"
    /\ req = NoRequest
    /\ fault = "none"
    /\ status = 0
    /\ panicked = FALSE
    /\ rowId = 0
    /\ event = ZeroEvent
    /\ converted = FALSE
    /\ sms = NoSms
    /\ inflight = <<>>
    /\ body = <<>>

Next ==
    \/ \E r \in Requests, f \in Faults : NewEventHandler(r, f)
    \/ IndexHandler

Spec == Init /\ [][Next]_vars

\* the variant of README.md:253-586
NextEnv ==
    \/ \E r \in Requests, f \in EnvFaults : NewEventHandlerEnv(r, f)
    \/ IndexHandler

SpecEnv == Init /\ [][NextEnv]_vars

NextConc ==
    \E w \in Workers :
        \/ \E r \in ConcRequests, f \in ConcFaults : Accept(w, r, f)
        \/ Open(w)
        \/ CopyVideo(w)
        \/ CopyImage(w)
        \/ Insert(w)
        \/ Notify(w)
        \/ Respond(w)

SpecConc == Init /\ [][NextConc]_vars

NextStore ==
    \/ \E ev \in StoreEvents, ok \in BOOLEAN : CreateEventCall(ev, ok)
    \/ \E id \in StoreIds : GetEventCall(id)

SpecStore == Init /\ [][NextStore]_vars

NextFfmpeg ==
    \/ \E r \in FfmpegRequests, f \in FfmpegFaults : NewEventHandlerFfmpeg(r, f)
    \/ IndexHandler

SpecFfmpeg == Init /\ [][NextFfmpeg]_vars

----------------------------------------------------------------------------
(* Properties *)

\* the last call was an ingestion request
Ingested == handler = "NewEventHandler"

\* a request with a non-empty name, a video part and an image part
Valid(r) == r.name # "" /\ r.video # NoPart /\ r.image # NoPart

\* the row with the given id
Row(id) == CHOOSE e \in events : e.id = id

\* the last call committed a row
Committed == rowId # 0 /\ \E e \in events : e.id = rowId

\* exactly one row was added by this step, with an id above every id
\* assigned before
OneNewRow ==
    \E row \in events' :
        /\ row \notin events
        /\ events' = events \cup {row}
        /\ row.id > seq
        /\ \A e \in events : row.id > e.id

C2_IncompleteAddsNoRow ==
    [][(/\ handler' = "NewEventHandler"
        /\ ~Valid(req')) => events' = events]_vars

\* a request with both files and an empty name was answered, the store not empty
C2_Witness ==
    /\ Ingested
    /\ req.name = ""
    /\ req.video # NoPart
    /\ req.image # NoPart
    /\ status = StatusNotAcceptable
    /\ events # {}

\* a request the claim counts as rejected: a part is missing, a media file
\* could not be stored, or the name is empty
Rejection ==
    \/ req.video = NoPart
    \/ req.image = NoPart
    \/ fault \in {"openVideo", "openImage", "copyVideo", "copyImage"}
    \/ req.name = ""

\* C3: every ingestion request ends with 202 or 406: 202 exactly when the row
\* was committed, and 406 on every rejection path.
C3_AcceptedOrNotAcceptable ==
    Ingested =>
        /\ status \in {StatusAccepted, StatusNotAcceptable}
        /\ (status = StatusAccepted) <=> Committed
        /\ Rejection => status = StatusNotAcceptable

\* C4: every row of the events table has a non-empty name, video path and
\* image path.
C4_RowsComplete ==
    \A e \in events : e.name # "" /\ e.video # EmptyPath /\ e.image # EmptyPath

\* a request with an empty name arrived at a store that holds two rows
C4_Witness ==
    /\ Ingested
    /\ req.name = ""
    /\ req.video # NoPart
    /\ req.image # NoPart
    /\ fault = "none"
    /\ Cardinality(events) = 2

\* C5: the event GetEvent returns for the id CreateEvent returned has that
\* id, the inserted name, video and image, and a non-null time.
C5_RoundTrip ==
    (Ingested /\ status = StatusAccepted) =>
        /\ event.id = rowId
        /\ event.name = req.name
        /\ event.video = Join(DataDir, req.video.filename)
        /\ event.image = Join(DataDir, req.image.filename)
        /\ event.time # NullTime

\* C6: the listing holds at most IndexLimit events, in strictly descending
\* order of id, and they are the newest rows of the table (none on an empty
\* table).  The listing is fixed by the table alone, so two listings of the
\* same table are the same.
C6_ListingNewestFirst ==
    handler = "IndexHandler" =>
        /\ Len(body) <= IndexLimit
        /\ Len(body) = Min(IndexLimit, Cardinality(events))
        /\ \A i \in 1..Len(body) : body[i] \in events
        /\ \A i, j \in 1..Len(body) : i < j => body[i].id > body[j].id
        /\ \A e \in events :
               (\A i \in 1..Len(body) : body[i] # e) =>
                   \A i \in 1..Len(body) : e.id < body[i].id
        /\ events = {} => body = <<>>

\* a listing of a table that holds more rows than the limit
C6_Witness ==
    /\ handler = "IndexHandler"
    /\ Cardinality(events) > IndexLimit
    /\ Len(body) = IndexLimit
    /\ body[1].id = MaxId(events)

\* C7: when the encoder fails on the video of a valid ingestion whose upload
\* was persisted, the committed row's video path is the path the upload was
\* persisted at, and the file at that path still exists after the request.
C7_FallbackKeepsOriginal ==
    (/\ Ingested
     /\ Valid(req)
     /\ fault # "openVideo"
     /\ Committed
     /\ ~converted) =>
        /\ Row(rowId).video = Join(DataDir, req.video.filename)
        /\ fs[Join(DataDir, req.video.filename)] # NoFile

\* the encoder failed on a persisted .avi upload and the row was committed
C7_Witness ==
    /\ Ingested
    /\ Valid(req)
    /\ fault = "ffmpeg"
    /\ req.video.filename.ext = ".avi"
    /\ Committed
    /\ ~converted
    /\ fs[Join(DataDir, req.video.filename)] = req.video.size

\* C8: when a row has been committed, its video path and its image path name
\* files that exist in the data directory.
C8_CommittedPathsExist ==
    (Ingested /\ Committed) =>
        /\ fs[Row(rowId).video] # NoFile
        /\ fs[Row(rowId).image] # NoFile

\* C9: a request in which opening or copying the video or the image failed
\* is not accepted and creates no row.
C9_StorageFailureRejects ==
    (Ingested /\ fault \in {"openVideo", "openImage", "copyVideo", "copyImage"}) =>
        /\ status # StatusAccepted
        /\ rowId = 0
        /\ ~Committed

\* the bytes of the two files of the request
UploadSize(r) == r.video.size + r.image.size

\* C10: an upload of exactly the cap is accepted; an upload of one byte more is
\* not accepted, inserts no row and writes no file.
C10_CapEnforced ==
    (Ingested /\ Valid(req) /\ fault = "none") =>
        /\ UploadSize(req) = maxMemory => status = StatusAccepted
        /\ UploadSize(req) > maxMemory =>
               /\ status # StatusAccepted
               /\ ~Committed
               /\ fs[Join(DataDir, req.video.filename)] # req.video.size

----------------------------------------------------------------------------
(* Requests served side by side (SpecConc) *)

Done(w) == w \in DOMAIN inflight /\ inflight[w].pc = "done"

\* the row a goroutine's request stands for, under the id its insert returned
RowOf(w) ==
    [ id    |-> inflight[w].rowId,
      name  |-> inflight[w].req.name,
      time  |-> CurrentTimestamp,
      video |-> Join(DataDir, inflight[w].req.video.filename),
      image |-> Join(DataDir, inflight[w].req.image.filename) ]

AllServedValid ==
    \A w \in Workers :
        Done(w) /\ Valid(inflight[w].req) /\ inflight[w].fault # "exec"

\* C11: when NumWorkers requests with valid input have been served side by
\* side, in whatever interleaving of their statements, the table holds exactly
\* NumWorkers rows, their ids are pairwise distinct, and every row carries the
\* name, video and image of one and the same request
C11_ConcurrentRowsDistinct ==
    AllServedValid =>
        /\ Cardinality(events) = NumWorkers
        /\ \A v, w \in Workers : v # w => inflight[v].rowId # inflight[w].rowId
        /\ events = {RowOf(w) : w \in Workers}

\* all served, two different uploads, and the goroutine that came second in
\* the numbering inserted first
C11_Witness ==
    /\ AllServedValid
    /\ Cardinality(events) = NumWorkers
    /\ \E v, w \in Workers :
           /\ v < w
           /\ inflight[v].rowId > inflight[w].rowId
           /\ inflight[v].req # inflight[w].req

----------------------------------------------------------------------------
(* The notifier and the client's connection can fail (SpecEnv) *)

\* C12: a call of NewEventHandler whose SendSMS fails after the insert still
\* ends with 202 and with its row in the table, unchanged next to the rows
\* that were there before; and no call ever removes or changes a row, so the
\* row stays visible to later reads
C12_NotifierFailureKeepsCommit ==
    [][ /\ events \subseteq events'
        /\ (handler' = "NewEventHandler" /\ fault' = "sms") =>
               /\ sms'.called
               /\ ~sms'.delivered
               /\ status' = StatusAccepted
               /\ ~panicked'
               /\ \E row \in events' :
                      /\ row.id = rowId'
                      /\ row \notin events
                      /\ events' = events \cup {row} ]_vars

\* the notifier failed on the second ingestion, which is committed and was
\* answered 202
C12_Witness ==
    /\ Ingested
    /\ fault = "sms"
    /\ sms.called
    /\ ~sms.delivered
    /\ status = StatusAccepted
    /\ Committed
    /\ rowId = 2

----------------------------------------------------------------------------
(* The event handed to the notifier (Spec) *)

\* C13: whenever NewEventHandler calls SendSMS, the event it hands over is the
\* one this call committed: its id is the id CreateEvent returned to this call
C13_NotifiedIsCommitted ==
    (Ingested /\ sms.called) => sms.event.id = rowId

----------------------------------------------------------------------------
(* Requests that lack a part (Spec) *)

\* C14: a call of NewEventHandler for a request without a name, without a
\* video part or without an image part leaves the data directory and the
\* table as they were and does not call SendSMS
C14_MissingPartNoEffects ==
    [][ (handler' = "NewEventHandler" /\ ~Valid(req')) =>
            /\ fs' = fs
            /\ events' = events
            /\ ~sms'.called ]_vars

----------------------------------------------------------------------------
(* The re-encoding step and the outcome of the request (SpecFfmpeg) *)

\* C16: in the re-encoding variant a request with a name, a video and an
\* image ends with 202 and with its row in the table, when ffmpeg ran without
\* error and when it failed or is not installed
C16_TranscodeNeverAborts ==
    (Ingested /\ Valid(req) /\ fault \in {"none", "ffmpeg"}) =>
        /\ status = StatusAccepted
        /\ ~panicked
        /\ Committed

\* the first request's video was re-encoded, the second request's ffmpeg run
\* failed, and both are committed
C16_Witness ==
    /\ Ingested
    /\ Valid(req)
    /\ fault = "ffmpeg"
    /\ ~converted
    /\ status = StatusAccepted
    /\ Committed
    /\ rowId = 2
    /\ \E e \in events :
           /\ e.id = 1
           /\ e.video.ext = ".mp4"
           /\ fs[e.video] = Transcoded(maxMemory - 1)

----------------------------------------------------------------------------
(* GetEvent on an id that has no row (SpecStore) *)

\* C17: a call of GetEvent with an id that no row of the table carries fails
\* (the lookup's error is raised) and yields no event, whatever rows the table
\* holds
C17_MissingIdNotFound ==
    (handler = "GetEvent" /\ ~\E e \in events : e.id = rowId) =>
        /\ panicked
        /\ event = ZeroEvent

----------------------------------------------------------------------------
(* The client goes away during the upload (SpecEnv) *)

\* C18: a call of NewEventHandler whose client disconnects before the
\* multipart body is fully received writes nothing to the data directory,
\* inserts no row, notifies nobody and is not answered 202
C18_DisconnectCommitsNothing ==
    [][ (handler' = "NewEventHandler" /\ fault' = "disconnect") =>
            /\ fs' = fs
            /\ events' = events
            /\ seq' = seq
            /\ ~sms'.called
            /\ status' # StatusAccepted ]_vars

\* an upload with all three parts was cut off, after an earlier one had been
\* committed
C18_Witness ==
    /\ Ingested
    /\ fault = "disconnect"
    /\ Valid(req)
    /\ panicked
    /\ rowId = 0
    /\ events # {}

----------------------------------------------------------------------------
(* The content of the saved files (Spec) *)

\* C19: after a call of NewEventHandler that saved both parts with nothing
\* failing, each destination file holds exactly the uploaded bytes (here: has
\* exactly the upload's length), also when a longer file of that name was
\* there before
C19_SavedEqualsUpload ==
    (Ingested /\ fault = "none" /\ req.video # NoPart /\ req.image # NoPart) =>
        /\ fs[Join(DataDir, req.video.filename)] = req.video.size
        /\ fs[Join(DataDir, req.image.filename)] = req.image.size

\* C20: no call of a handler removes or changes a file that a committed row
\* names: every file at the video or image path of a row is afterwards still
\* there with the content it had
C20_CommittedMediaKept ==
    [][ \A e \in events :
            /\ (fs[e.video] # NoFile => fs'[e.video] = fs[e.video])
            /\ (fs[e.image] # NoFile => fs'[e.image] = fs[e.image]) ]_vars
====
